---------------------------- MODULE Spec2Model ----------------------------
(***************************************************************************)
(* ACM (claude-code-auth-manager): the profile store, the Active Pointer   *)
(* and the activation engine of src/src/lib/config.ts, driven as           *)
(* src/src/lib/commands.ts drives them.                                    *)
(*                                                                         *)
(* Text is a sequence of symbols.  A symbol is one character ("a", "|",    *)
(* a line feed) or an opaque chunk of characters that holds no delimiter   *)
(* ("TOKEN", "sk-1", "export ").  Files are records [exists, content].     *)
(***************************************************************************)
EXTENDS Integers, Sequences, FiniteSets, TLC

VARIABLES
    configFile,     \* ~/.claude/.claude_config   (the profile list)
    currentFile,    \* ~/.claude/.claude_current  (the Active Pointer)
    settingsFile,   \* ~/.claude/settings.json
    shellFiles,     \* the shell-startup files, by path
    winEnv,         \* the user-level variables written by setx
    processEnv,     \* process.env: the three ANTHROPIC_* variables
    host,           \* os.platform() and the shell-detection observations
    added,          \* history: aliases in the order their add calls succeeded
    last,           \* history: the last call, its argument and its outcome
    race            \* two concurrent CLI processes: where each call stands

vars == <<configFile, currentFile, settingsFile, shellFiles, winEnv,
          processEnv, host, added, last, race>>

---------------------------------------------------------------------------
(* Bounds of the model                                                     *)

MaxRecords == 3

---------------------------------------------------------------------------
(* JavaScript strings and values                                           *)

LF == "\n"
BAR == "|"

\* the value `undefined` (an absent array element, an unset variable)
UNDEF == <<"<undefined>">>

\* `x || d` and `if (x)` on a string-or-undefined value
Truthy(x) == x # UNDEF /\ x # <<>>

\* `${x}` in a template literal
Str(x) == IF x = UNDEF THEN <<"undefined">> ELSE x

RECURSIVE splitFrom(_, _, _)
splitFrom(s, d, cur) ==
    IF s = <<>> THEN <<cur>>
    ELSE IF Head(s) = d THEN <<cur>> \o splitFrom(Tail(s), d, <<>>)
    ELSE splitFrom(Tail(s), d, Append(cur, Head(s)))

\* String.prototype.split(d) for a one-character separator
split(s, d) == splitFrom(s, d, <<>>)

RECURSIVE join(_, _)
\* Array.prototype.join(d)
join(parts, d) ==
    IF parts = <<>> THEN <<>>
    ELSE IF Len(parts) = 1 THEN parts[1]
    ELSE parts[1] \o <<d>> \o join(Tail(parts), d)

Whitespace == {LF, " "}

\* line.trim() is the empty string
trimIsEmpty(line) == \A i \in DOMAIN line : line[i] \in Whitespace

\* String.prototype.startsWith
startsWith(s, p) == Len(p) <= Len(s) /\ SubSeq(s, 1, Len(p)) = p

\* String.prototype.indexOf for a one-symbol needle, 1-based; 0 when absent
indexOf(s, sym) ==
    IF \E i \in DOMAIN s : s[i] = sym
    THEN CHOOSE i \in DOMAIN s : s[i] = sym /\ \A j \in 1..(i - 1) : s[j] # sym
    ELSE 0

\* String.prototype.includes for a one-symbol needle
includes(s, sym) == \E i \in DOMAIN s : s[i] = sym

---------------------------------------------------------------------------
(* Files                                                                   *)

NoFile == [exists |-> FALSE, content |-> <<>>]
File(c) == [exists |-> TRUE, content |-> c]

---------------------------------------------------------------------------
(* ProfileStore: the record format                                         *)

KEY == <<"KEY">>
TOKEN == <<"TOKEN">>

Config(alias, name, token, url, type) ==
    [alias |-> alias, name |-> name, token |-> token, url |-> url, type |-> type]

\* `${alias}|${name}|${token}|${url}|${type || 'TOKEN'}`
configLine(c) ==
    Str(c.alias) \o <<BAR>> \o Str(c.name) \o <<BAR>> \o Str(c.token)
        \o <<BAR>> \o Str(c.url) \o <<BAR>>
        \o (IF Truthy(c.type) THEN c.type ELSE TOKEN)

\* the line parsed with KEY as the kind of a record that names none
parseLineDefaultKey(line) ==
    LET parts == split(line, BAR)
        part(i) == IF i <= Len(parts) THEN parts[i] ELSE UNDEF
    IN  Config(part(1), part(2), part(3), part(4),
               IF Truthy(part(5)) THEN part(5) ELSE KEY)

\* line.split('|'), destructured; parts[4] || 'TOKEN'
parseLine(line) ==
    LET parts == split(line, BAR)
        part(i) == IF i <= Len(parts) THEN parts[i] ELSE UNDEF
    IN  Config(part(1), part(2), part(3), part(4),
               IF Truthy(part(5)) THEN part(5) ELSE TOKEN)

\* initConfig: creates the empty list file when it is absent
initConfig(file) == IF file.exists THEN file ELSE File(<<>>)

\* the non-blank lines of the list file
storeLines(file) ==
    SelectSeq(split(initConfig(file).content, LF), LAMBDA l : ~trimIsEmpty(l))

\* getAllConfigs: every non-blank line, parsed
getAllConfigs(file) ==
    LET ls == storeLines(file) IN [i \in DOMAIN ls |-> parseLine(ls[i])]

hasAlias(configs, alias) == \E i \in DOMAIN configs : configs[i].alias = alias

\* getConfig: the first record with the alias, or the empty sequence
getConfig(file, alias) ==
    LET cs == getAllConfigs(file)
    IN  IF hasAlias(cs, alias)
        THEN <<cs[CHOOSE i \in DOMAIN cs :
                    cs[i].alias = alias /\ \A j \in 1..(i - 1) : cs[j].alias # alias]>>
        ELSE <<>>

\* addConfig with the duplicate check left out
addConfigNeverThrows(file, alias) == FALSE

\* addConfig: does the duplicate check throw?
addConfigThrows(file, alias) == hasAlias(getAllConfigs(file), alias)

\* addConfig writing the new line above the old ones
addConfigFilePrepends(file, alias, name, token, url, keyType) ==
    IF addConfigThrows(file, alias) THEN initConfig(file)
    ELSE File(configLine(Config(alias, name, token, url, keyType))
                \o <<LF>> \o initConfig(file).content)

\* addConfig: the list file when the call is over
addConfigFile(file, alias, name, token, url, keyType) ==
    IF addConfigThrows(file, alias) THEN initConfig(file)
    ELSE File(initConfig(file).content \o <<LF>>
                \o configLine(Config(alias, name, token, url, keyType)))

\* removeConfig with the existence check left out
removeConfigNeverThrows(file, alias) == FALSE

\* removeConfig: does the existence check throw?
removeConfigThrows(file, alias) == ~hasAlias(getAllConfigs(file), alias)

\* removeConfig: the list file when the call is over
removeConfigFile(file, alias) ==
    IF removeConfigThrows(file, alias) THEN initConfig(file)
    ELSE LET remaining == SelectSeq(getAllConfigs(file), LAMBDA c : c.alias # alias)
         IN  File(join([i \in DOMAIN remaining |-> configLine(remaining[i])], LF))

\* removeConfig matching the pointer by the alias alone, without the delimiter
removeConfigCurrentByPrefix(file, current, alias) ==
    IF removeConfigThrows(file, alias) THEN current
    ELSE IF current.exists /\ startsWith(current.content, alias)
         THEN NoFile
         ELSE current

\* removeConfig: the pointer file when the call is over
removeConfigCurrent(file, current, alias) ==
    IF removeConfigThrows(file, alias) THEN current
    ELSE IF current.exists /\ startsWith(current.content, alias \o <<BAR>>)
         THEN NoFile
         ELSE current

---------------------------------------------------------------------------
(* ActivationEngine: the settings file                                     *)

\* the keys of the settings document's env map that the model tracks
Env(auth, apiKey, baseUrl, maxOut, traffic, other) ==
    [ANTHROPIC_AUTH_TOKEN |-> auth, ANTHROPIC_API_KEY |-> apiKey,
     ANTHROPIC_BASE_URL |-> baseUrl, CLAUDE_CODE_MAX_OUTPUT_TOKENS |-> maxOut,
     CLAUDE_CODE_DISABLE_NONESSENTIAL_TRAFFIC |-> traffic, MY_OTHER_VAR |-> other]

\* the default document of readClaudeSettings
DefaultSettings ==
    [hasEnv |-> TRUE,
     env |-> Env(<<>>, UNDEF, <<>>, <<"32000">>, <<"1">>, UNDEF),
     permissions |-> [allow |-> <<>>, deny |-> <<>>],
     extra |-> UNDEF]

\* settings.json: absent, unparsable text, or a JSON document
NoSettings == [exists |-> FALSE, parses |-> FALSE, doc |-> DefaultSettings]
BadSettings == [exists |-> TRUE, parses |-> FALSE, doc |-> DefaultSettings]
Settings(doc) == [exists |-> TRUE, parses |-> TRUE, doc |-> doc]

\* readClaudeSettings: the parsed document, or the default one
readClaudeSettings(f) == IF f.exists /\ f.parses THEN f.doc ELSE DefaultSettings

\* updateClaudeSettings giving up as well when there is no readable file
throwsWithoutReadableFile(f, writeOk) ==
    ~(f.exists /\ f.parses) \/ ~readClaudeSettings(f).hasEnv \/ ~writeOk

\* updateClaudeSettings throws: `settings.env` is undefined, or the write fails
updateClaudeSettingsThrows(f, writeOk) ==
    ~readClaudeSettings(f).hasEnv \/ ~writeOk

\* updateClaudeSettings: the settings file when the call is over
updateClaudeSettingsFile(f, token, baseUrl, writeOk) ==
    IF updateClaudeSettingsThrows(f, writeOk) THEN f
    ELSE LET settings == readClaudeSettings(f)
         IN  Settings([settings EXCEPT !.env.ANTHROPIC_AUTH_TOKEN = token,
                                       !.env.ANTHROPIC_BASE_URL = baseUrl])

---------------------------------------------------------------------------
(* ActivationEngine: shell detection and the shell-startup file            *)

Host(win, shell, psModulePath, comspec, zshVersion, zshName, bashVersion) ==
    [win |-> win, SHELL |-> shell, PSModulePath |-> psModulePath,
     COMSPEC |-> comspec, ZSH_VERSION |-> zshVersion, ZSH_NAME |-> zshName,
     BASH_VERSION |-> bashVersion]

isWindows(h) == h.win

\* detectShell looking for 'bash' in SHELL before it looks for 'zsh'
detectShellBashFirst(h) ==
    IF isWindows(h)
    THEN IF Truthy(h.PSModulePath) THEN "powershell"
         ELSE IF Truthy(h.COMSPEC) /\ includes(h.COMSPEC, "cmd") THEN "cmd"
         ELSE "powershell"
    ELSE LET shell == IF Truthy(h.SHELL) THEN h.SHELL ELSE <<>>
         IN  IF includes(shell, "bash") THEN "bash"
             ELSE IF includes(shell, "zsh") THEN "zsh"
             ELSE IF Truthy(h.ZSH_VERSION) \/ Truthy(h.ZSH_NAME) THEN "zsh"
             ELSE IF Truthy(h.BASH_VERSION) THEN "bash"
             ELSE "unknown"

detectShell(h) ==
    IF isWindows(h)
    THEN IF Truthy(h.PSModulePath) THEN "powershell"
         ELSE IF Truthy(h.COMSPEC) /\ includes(h.COMSPEC, "cmd") THEN "cmd"
         ELSE "powershell"
    ELSE LET shell == IF Truthy(h.SHELL) THEN h.SHELL ELSE <<>>
         IN  IF includes(shell, "zsh") THEN "zsh"
             ELSE IF includes(shell, "bash") THEN "bash"
             ELSE IF Truthy(h.ZSH_VERSION) \/ Truthy(h.ZSH_NAME) THEN "zsh"
             ELSE IF Truthy(h.BASH_VERSION) THEN "bash"
             ELSE "unknown"

ZshRc == "~/.zshrc"
BashProfile == "~/.bash_profile"
BashRc == "~/.bashrc"
DotProfile == "~/.profile"
PsProfile == "~/Documents/WindowsPowerShell/Microsoft.PowerShell_profile.ps1"
NoPath == ""

Paths == {ZshRc, BashProfile, BashRc, DotProfile, PsProfile}

\* getProfileFile: the startup file of the detected shell ("" for cmd)
getProfileFile(h, files) ==
    LET shellType == detectShell(h)
    IN  IF isWindows(h)
        THEN IF shellType = "powershell" THEN PsProfile
             ELSE IF shellType = "cmd" THEN NoPath
             ELSE PsProfile
        ELSE IF shellType = "zsh" THEN ZshRc
             ELSE IF shellType = "bash"
                  THEN IF files[BashProfile].exists THEN BashProfile ELSE BashRc
             ELSE DotProfile

envVarStart == "# Claude Code Environment Variables"
envVarEnd == "# End Claude Code Environment Variables"

AUTH_TOKEN == "ANTHROPIC_AUTH_TOKEN"
API_KEY == "ANTHROPIC_API_KEY"
BASE_URL == "ANTHROPIC_BASE_URL"

\* config.type === 'KEY' ? 'ANTHROPIC_API_KEY' : 'ANTHROPIC_AUTH_TOKEN'
envVarOf(type) == IF type = KEY THEN API_KEY ELSE AUTH_TOKEN

\* the sentinel block of a Unix shell
unixEnvVars(config) ==
    <<envVarStart, LF, "export ", BASE_URL, "=", "\"">> \o Str(config.url)
        \o <<"\"", LF, "export ", envVarOf(config.type), "=", "\"">>
        \o Str(config.token) \o <<"\"", LF, envVarEnd>>

\* the sentinel block of PowerShell
powerShellEnvVars(config) ==
    <<envVarStart, LF, "$env:", BASE_URL, " = ", "\"">> \o Str(config.url)
        \o <<"\"", LF, "$env:", envVarOf(config.type), " = ", "\"">>
        \o Str(config.token) \o <<"\"", LF, envVarEnd>>

\* the block is appended whether or not the markers are there
appendAlways(content, newEnvVars) ==
    (IF content # <<>> /\ content[Len(content)] # LF
     THEN content \o <<LF>> ELSE content)
        \o <<LF>> \o newEnvVars \o <<LF>>

\* replace the text from the first start marker to the first end marker, or
\* append the block when either marker is missing
replaceOrAppend(content, newEnvVars) ==
    LET startIndex == indexOf(content, envVarStart)
        endIndex == indexOf(content, envVarEnd)
    IN  IF startIndex # 0 /\ endIndex # 0
        THEN SubSeq(content, 1, startIndex - 1) \o newEnvVars
                \o SubSeq(content, endIndex + 1, Len(content))
        ELSE (IF content # <<>> /\ content[Len(content)] # LF
              THEN content \o <<LF>> ELSE content)
                \o <<LF>> \o newEnvVars \o <<LF>>

\* the text of an existing file, '' for a missing one
readOrEmpty(file) == IF file.exists THEN file.content ELSE <<>>

updateUnixShellConfig(file, config) ==
    File(replaceOrAppend(readOrEmpty(file), unixEnvVars(config)))

updateWindowsPowerShellConfig(file, config) ==
    File(replaceOrAppend(readOrEmpty(file), powerShellEnvVars(config)))

\* process.env.X = v stores the string form of v
setCurrentSessionEnvironmentVariables(env, config) ==
    LET cleared == [env EXCEPT ![AUTH_TOKEN] = UNDEF, ![API_KEY] = UNDEF]
    IN  [cleared EXCEPT ![envVarOf(config.type)] = Str(config.token),
                        ![BASE_URL] = Str(config.url)]

\* setWindowsEnvironmentVariable: setx, its failure logged and swallowed
setWindowsEnvironmentVariable(wenv, key, value, setxOk) ==
    IF setxOk THEN [wenv EXCEPT ![key] = Str(value)] ELSE wenv

---------------------------------------------------------------------------
(* ActivationEngine: activate and getCurrent                               *)

\* the outcome of the write calls of one activation, chosen by the host
Io(pointerWrite, settingsWrite, shellWrite, setx1, setx2) ==
    [pointerWrite |-> pointerWrite, settingsWrite |-> settingsWrite,
     shellWrite |-> shellWrite, setx1 |-> setx1, setx2 |-> setx2]

\* updateShellConfig: the startup files, the setx store and process.env when
\* the call is over, whether it threw, and the surface it used
updateShellConfig(files, wenv, env, h, config, io) ==
    LET profile == getProfileFile(h, files)
        shellType == detectShell(h)
        env1 == setCurrentSessionEnvironmentVariables(env, config)
        failed == [files |-> files, winEnv |-> wenv, env |-> env1,
                   threw |-> TRUE, shell |-> "failed"]
    IN  IF isWindows(h)
        THEN IF shellType = "cmd" \/ profile = NoPath
             THEN [files |-> files,
                   winEnv |-> setWindowsEnvironmentVariable(
                                setWindowsEnvironmentVariable(
                                    wenv, BASE_URL, config.url, io.setx1),
                                envVarOf(config.type), config.token, io.setx2),
                   env |-> env1, threw |-> FALSE, shell |-> "setx"]
             ELSE IF io.shellWrite
                  THEN [files |-> [files EXCEPT ![profile] =
                                    updateWindowsPowerShellConfig(@, config)],
                        winEnv |-> wenv, env |-> env1,
                        threw |-> FALSE, shell |-> "file"]
                  ELSE failed
        ELSE IF io.shellWrite
             THEN [files |-> [files EXCEPT ![profile] =
                                updateUnixShellConfig(@, config)],
                   winEnv |-> wenv, env |-> env1,
                   threw |-> FALSE, shell |-> "file"]
             ELSE failed

\* setCurrentConfig running the shell configuration after the try block,
\* whatever its outcome
alwaysRunsShell(settingsThrew) == TRUE

\* the catch clause of setCurrentConfig: the shell configuration runs when
\* updateClaudeSettings threw
fallsBackToShell(settingsThrew) == settingsThrew

\* setCurrentConfig with the two first statements exchanged: the settings
\* file is updated before the Active Pointer is written
setCurrentConfigSettingsFirst(st, config, io) ==
    LET settingsThrew ==
            updateClaudeSettingsThrows(st.settingsFile, io.settingsWrite)
        settings1 == updateClaudeSettingsFile(
                        st.settingsFile, config.token, config.url,
                        io.settingsWrite)
        sh == updateShellConfig(st.shellFiles, st.winEnv, st.processEnv,
                                st.host, config, io)
    IN  IF ~io.pointerWrite
        THEN [currentFile |-> st.currentFile, settingsFile |-> settings1,
              shellFiles |-> st.shellFiles, winEnv |-> st.winEnv,
              processEnv |-> st.processEnv,
              res |-> "threw", settings |-> "skipped", shell |-> "skipped"]
        ELSE IF fallsBackToShell(settingsThrew)
             THEN [currentFile |-> File(configLine(config)),
                   settingsFile |-> settings1,
                   shellFiles |-> sh.files, winEnv |-> sh.winEnv,
                   processEnv |-> sh.env,
                   res |-> IF sh.threw THEN "threw" ELSE "ok",
                   settings |-> IF settingsThrew THEN "failed" ELSE "ok",
                   shell |-> sh.shell]
             ELSE [currentFile |-> File(configLine(config)),
                   settingsFile |-> settings1,
                   shellFiles |-> st.shellFiles, winEnv |-> st.winEnv,
                   processEnv |-> st.processEnv,
                   res |-> "ok",
                   settings |-> IF settingsThrew THEN "failed" ELSE "ok",
                   shell |-> "skipped"]

\* setCurrentConfig on the files and the environment st; res is "ok" when
\* the call returns and "threw" when an error leaves it
setCurrentConfig(st, config, io) ==
    IF ~io.pointerWrite
    THEN [currentFile |-> st.currentFile, settingsFile |-> st.settingsFile,
          shellFiles |-> st.shellFiles, winEnv |-> st.winEnv,
          processEnv |-> st.processEnv,
          res |-> "threw", settings |-> "skipped", shell |-> "skipped"]
    ELSE LET settingsThrew ==
                updateClaudeSettingsThrows(st.settingsFile, io.settingsWrite)
             settings1 == updateClaudeSettingsFile(
                            st.settingsFile, config.token, config.url,
                            io.settingsWrite)
             sh == updateShellConfig(st.shellFiles, st.winEnv, st.processEnv,
                                     st.host, config, io)
         IN  IF fallsBackToShell(settingsThrew)
             THEN [currentFile |-> File(configLine(config)),
                   settingsFile |-> settings1,
                   shellFiles |-> sh.files, winEnv |-> sh.winEnv,
                   processEnv |-> sh.env,
                   res |-> IF sh.threw THEN "threw" ELSE "ok",
                   settings |-> IF settingsThrew THEN "failed" ELSE "ok",
                   shell |-> sh.shell]
             ELSE [currentFile |-> File(configLine(config)),
                   settingsFile |-> settings1,
                   shellFiles |-> st.shellFiles, winEnv |-> st.winEnv,
                   processEnv |-> st.processEnv,
                   res |-> "ok",
                   settings |-> IF settingsThrew THEN "failed" ELSE "ok",
                   shell |-> "skipped"]

\* getCurrentConfig comparing the secret only
getCurrentConfigSecretOnly(current, env) ==
    IF ~current.exists THEN <<>>
    ELSE LET c == parseLine(current.content)
         IN  <<[alias |-> c.alias, name |-> c.name, token |-> c.token,
                url |-> c.url, type |-> c.type,
                isActive |-> env[envVarOf(c.type)] = c.token]>>

\* getCurrentConfig: <<>> for null, else the pointer's fields and isActive
getCurrentConfig(current, env) ==
    IF ~current.exists THEN <<>>
    ELSE LET c == parseLine(current.content)
         IN  <<[alias |-> c.alias, name |-> c.name, token |-> c.token,
                url |-> c.url, type |-> c.type,
                isActive |-> env[envVarOf(c.type)] = c.token
                                /\ env[BASE_URL] = c.url]>>

---------------------------------------------------------------------------
(* Commands.add: the credential-kind resolver                              *)

\* the letters whose case the model tells apart
Upper == <<"K", "E", "Y", "T", "O", "N">>
Lower == <<"k", "e", "y", "t", "o", "n">>

\* String.prototype.toLowerCase, character by character
toLowerCase(s) ==
    [i \in DOMAIN s |->
        IF \E j \in DOMAIN Upper : Upper[j] = s[i]
        THEN Lower[CHOOSE j \in DOMAIN Upper : Upper[j] = s[i]]
        ELSE s[i]]

tokenUrls ==
    {<<"https://code.wenwen-ai.com">>, <<"https://api.aicodewith.com">>}

keyUrls ==
    {<<"https://api.aicodemirror.com", "/api/claudecode">>,
     <<"https://gaccode.com", "/claudecode">>}

\* determineKeyType comparing the manual type as it was typed
determineKeyTypeCaseSensitive(url, manualType) ==
    IF Truthy(manualType) /\ manualType \in {<<"k", "e", "y">>, <<"k">>}
    THEN KEY
    ELSE IF Truthy(manualType)
              /\ manualType \in {<<"t", "o", "k", "e", "n">>, <<"t">>}
    THEN TOKEN
    ELSE IF url \in tokenUrls THEN TOKEN
    ELSE IF url \in keyUrls THEN KEY
    ELSE TOKEN

\* Commands.determineKeyType
determineKeyType(url, manualType) ==
    IF Truthy(manualType)
          /\ toLowerCase(manualType) \in {<<"k", "e", "y">>, <<"k">>}
    THEN KEY
    ELSE IF Truthy(manualType)
              /\ toLowerCase(manualType) \in {<<"t", "o", "k", "e", "n">>, <<"t">>}
    THEN TOKEN
    ELSE IF url \in tokenUrls THEN TOKEN
    ELSE IF url \in keyUrls THEN KEY
    ELSE TOKEN

---------------------------------------------------------------------------
(* The values the calls are made with                                      *)

a == <<"a">>
ab == <<"a", "b">>
b == <<"b">>
Aliases == {a, ab, b}

Claude == <<"Claude">>
sk1 == <<"sk-1">>
sk2 == <<"sk-2">>
url1 == <<"https://one.example">>
url2 == <<"https://two.example">>

\* the arguments of addConfig; the keyType may be left out, and a display
\* name may hold the delimiter
AddInputs ==
    {Config(a, Claude, sk1, url1, KEY),
     Config(a, <<BAR>>, sk1, url1, KEY),
     Config(ab, Claude, sk2, url2, TOKEN),
     Config(b, Claude, sk2, url1, UNDEF)}

\* the arguments of a direct setCurrentConfig
DirectConfigs ==
    {Config(a, Claude, sk1, url1, KEY),
     Config(ab, Claude, sk2, url2, TOKEN),
     Config(a, Claude, sk1, url2, TOKEN)}

AllOk == Io(TRUE, TRUE, TRUE, TRUE, TRUE)

\* the outcomes of the write calls: the pointer write fails, or it succeeds
\* and the settings write, the startup-file write and each setx call
\* succeeds or fails
Ios ==
    {Io(FALSE, TRUE, TRUE, TRUE, TRUE)}
        \cup {Io(TRUE, s, w[1], w[2], w[3]) :
                s \in BOOLEAN,
                w \in {<<TRUE, TRUE, TRUE>>, <<FALSE, FALSE, TRUE>>,
                       <<TRUE, TRUE, FALSE>>, <<FALSE, FALSE, FALSE>>}}

\* a settings document the user wrote before the tool ran
UserSettings ==
    [hasEnv |-> TRUE,
     env |-> Env(UNDEF, <<"sk-old">>, UNDEF, UNDEF, UNDEF, <<"mine">>),
     permissions |-> [allow |-> <<"Bash">>, deny |-> <<"WebFetch">>],
     extra |-> <<"dark">>]

\* a JSON document with no env map
NoEnvSettings == [UserSettings EXCEPT !.hasEnv = FALSE]

SettingsInits ==
    {NoSettings, BadSettings, Settings(UserSettings), Settings(NoEnvSettings)}

UserText == <<"alias ll='ls -l'">>

NoShellFiles == [p \in Paths |-> NoFile]

ShellInits == {NoShellFiles, [p \in Paths |-> File(UserText)]}

ProcessEnv(auth, apiKey, baseUrl) ==
    (AUTH_TOKEN :> auth) @@ (API_KEY :> apiKey) @@ (BASE_URL :> baseUrl)

NoEnv == ProcessEnv(UNDEF, UNDEF, UNDEF)
OldEnv == ProcessEnv(<<"sk-old">>, <<"sk-old">>, <<"https://old.example">>)

EnvInits == {NoEnv, OldEnv}

ZshHost == Host(FALSE, <<"/bin/", "zsh">>, UNDEF, UNDEF, UNDEF, UNDEF, UNDEF)
BashHost == Host(FALSE, <<"/bin/", "bash">>, UNDEF, UNDEF, UNDEF, UNDEF, UNDEF)
PowerShellHost ==
    Host(TRUE, UNDEF, <<"C:\\Modules">>, UNDEF, UNDEF, UNDEF, UNDEF)
CmdHost ==
    Host(TRUE, UNDEF, UNDEF, <<"C:\\Windows\\", "cmd", ".exe">>,
         UNDEF, UNDEF, UNDEF)

Hosts == {ZshHost, BashHost, PowerShellHost, CmdHost}

---------------------------------------------------------------------------
(* The state machine                                                       *)

NoArg == Config(<<>>, <<>>, <<>>, <<>>, <<>>)
AliasArg(alias) == Config(alias, <<>>, <<>>, <<>>, <<>>)

Last(op, arg, res, settings, shell) ==
    [op |-> op, arg |-> arg, res |-> res, settings |-> settings, shell |-> shell]

\* a call of a concurrent process: its position, its argument, the list file
\* as it read it, and its outcome
Proc(pc, arg, snapshot, res) ==
    [pc |-> pc, arg |-> arg, snapshot |-> snapshot, res |-> res]

\* no concurrent process runs
NoRace ==
    [add |-> Proc("idle", NoArg, NoFile, "none"),
     remove |-> Proc("idle", NoArg, NoFile, "none"),
     writes |-> <<>>]

\* ConfigManager.getAllConfigs
GetAllConfigs ==
    /\ configFile' = initConfig(configFile)
    /\ last' = Last("list", NoArg, "ok", "skipped", "skipped")
    /\ UNCHANGED <<currentFile, settingsFile, shellFiles, winEnv, processEnv,
                   host, race, added>>

\* ConfigManager.getConfig
GetConfig ==
    \E alias \in Aliases :
        /\ configFile' = initConfig(configFile)
        /\ last' = Last("find", AliasArg(alias),
                        IF getConfig(configFile, alias) = <<>>
                        THEN "absent" ELSE "ok",
                        "skipped", "skipped")
        /\ UNCHANGED <<currentFile, settingsFile, shellFiles, winEnv,
                       processEnv, host, race, added>>

\* ConfigManager.addConfig
AddConfig ==
    \E c \in AddInputs :
        /\ \/ Len(getAllConfigs(configFile)) < MaxRecords
           \/ addConfigThrows(configFile, c.alias)
        /\ configFile' = addConfigFile(configFile, c.alias, c.name, c.token,
                                       c.url, c.type)
        /\ added' = IF addConfigThrows(configFile, c.alias) THEN added
                    ELSE Append(added, c.alias)
        /\ last' = Last("add", c,
                        IF addConfigThrows(configFile, c.alias)
                        THEN "DuplicateAlias" ELSE "ok",
                        "skipped", "skipped")
        /\ UNCHANGED <<currentFile, settingsFile, shellFiles, winEnv,
                       processEnv, host, race>>

\* removeConfig deleting the settings file too when it removes the record
\* that the pointer names
RemoveConfigClearingSettings ==
    \E alias \in Aliases :
        /\ configFile' = removeConfigFile(configFile, alias)
        /\ currentFile' = removeConfigCurrent(configFile, currentFile, alias)
        /\ settingsFile' =
              IF removeConfigCurrent(configFile, currentFile, alias) # currentFile
              THEN NoSettings ELSE settingsFile
        /\ added' = IF removeConfigThrows(configFile, alias) THEN added
                    ELSE SelectSeq(added, LAMBDA x : x # alias)
        /\ last' = Last("remove", AliasArg(alias),
                        IF removeConfigThrows(configFile, alias)
                        THEN "UnknownAlias" ELSE "ok",
                        "skipped", "skipped")
        /\ UNCHANGED <<shellFiles, winEnv, processEnv, host, race>>

\* ConfigManager.removeConfig
RemoveConfig ==
    \E alias \in Aliases :
        /\ configFile' = removeConfigFile(configFile, alias)
        /\ currentFile' = removeConfigCurrent(configFile, currentFile, alias)
        /\ added' = IF removeConfigThrows(configFile, alias) THEN added
                    ELSE SelectSeq(added, LAMBDA x : x # alias)
        /\ last' = Last("remove", AliasArg(alias),
                        IF removeConfigThrows(configFile, alias)
                        THEN "UnknownAlias" ELSE "ok",
                        "skipped", "skipped")
        /\ UNCHANGED <<settingsFile, shellFiles, winEnv, processEnv, host, race>>

\* the files and the environment setCurrentConfig works on
Surfaces ==
    [currentFile |-> currentFile, settingsFile |-> settingsFile,
     shellFiles |-> shellFiles, winEnv |-> winEnv, processEnv |-> processEnv,
     host |-> host]

Activate(config, io) ==
    LET r == setCurrentConfig(Surfaces, config, io)
    IN  /\ currentFile' = r.currentFile
        /\ settingsFile' = r.settingsFile
        /\ shellFiles' = r.shellFiles
        /\ winEnv' = r.winEnv
        /\ processEnv' = r.processEnv
        /\ last' = Last("activate", config, r.res, r.settings, r.shell)

\* ConfigManager.setCurrentConfig, the write calls ending as one of ios
SetCurrentConfig(ios) ==
    \E config \in DirectConfigs, io \in ios :
        /\ Activate(config, io)
        /\ UNCHANGED <<configFile, host, race, added>>

\* Commands.use going on to setCurrentConfig when getConfig found nothing
UseUnchecked(ios) ==
    \E alias \in Aliases, io \in ios :
        /\ configFile' = initConfig(configFile)
        /\ IF getConfig(configFile, alias) = <<>>
           THEN Activate(Config(alias, UNDEF, UNDEF, UNDEF, UNDEF), io)
           ELSE Activate(getConfig(configFile, alias)[1], io)
        /\ UNCHANGED <<host, race, added>>

\* Commands.use: getConfig, then setCurrentConfig of the record found
Use(ios) ==
    \E alias \in Aliases, io \in ios :
        /\ configFile' = initConfig(configFile)
        /\ IF getConfig(configFile, alias) = <<>>
           THEN /\ last' = Last("use", AliasArg(alias), "absent",
                                "skipped", "skipped")
                /\ UNCHANGED <<currentFile, settingsFile, shellFiles, winEnv,
                               processEnv>>
           ELSE Activate(getConfig(configFile, alias)[1], io)
        /\ UNCHANGED <<host, race, added>>

\* ConfigManager.getCurrentConfig
GetCurrentConfig ==
    /\ last' = Last("current", NoArg,
                    IF getCurrentConfig(currentFile, processEnv) = <<>>
                    THEN "absent" ELSE "ok",
                    "skipped", "skipped")
    /\ UNCHANGED <<configFile, currentFile, settingsFile, shellFiles, winEnv,
                   processEnv, host, race, added>>

(* The store and the commands on one host, every write succeeding          *)

Init ==
    /\ configFile = NoFile
    /\ currentFile = NoFile
    /\ settingsFile = NoSettings
    /\ shellFiles = NoShellFiles
    /\ winEnv = NoEnv
    /\ processEnv = OldEnv
    /\ host = ZshHost
    /\ added = <<>>
    /\ race = NoRace
    /\ last = Last("init", NoArg, "ok", "skipped", "skipped")

Next ==
    \/ GetAllConfigs
    \/ GetConfig
    \/ AddConfig
    \/ RemoveConfig
    \/ SetCurrentConfig({AllOk})
    \/ Use({AllOk})
    \/ GetCurrentConfig

Spec == Init /\ [][Next]_vars

(* The activation engine on every host, every write succeeding or failing  *)

InitActivation ==
    /\ configFile = NoFile
    /\ currentFile = NoFile
    /\ settingsFile \in SettingsInits
    /\ shellFiles \in ShellInits
    /\ winEnv = NoEnv
    /\ processEnv \in EnvInits
    /\ host \in Hosts
    /\ added = <<>>
    /\ race = NoRace
    /\ last = Last("init", NoArg, "ok", "skipped", "skipped")

NextActivation ==
    \/ SetCurrentConfig(Ios)
    \/ GetCurrentConfig

SpecActivation == InitActivation /\ [][NextActivation]_vars

(* The activation engine on every host, every write succeeding             *)

NextSettings ==
    \/ SetCurrentConfig({AllOk})
    \/ GetCurrentConfig

SpecSettings == InitActivation /\ [][NextSettings]_vars

(* One session on a zsh host: activations, reads of the pointer, and the
   hosting process assigning or deleting one of the variables of an active
   profile                                                                 *)

EnvVars == {AUTH_TOKEN, API_KEY, BASE_URL}

\* process.env[name] = 'altered', or delete process.env[name], by the code
\* that hosts the ConfigManager, while the current profile is active
AlterEnv ==
    \E name \in EnvVars, v \in {UNDEF, <<"altered">>} :
        /\ getCurrentConfig(currentFile, processEnv) # <<>>
        /\ getCurrentConfig(currentFile, processEnv)[1].isActive
        /\ processEnv[name] # v
        /\ processEnv' = [processEnv EXCEPT ![name] = v]
        /\ last' = Last("setenv", AliasArg(<<name>>), "ok", "skipped", "skipped")
        /\ UNCHANGED <<configFile, currentFile, settingsFile, shellFiles,
                       winEnv, host, race, added>>

SessionIos == {AllOk, Io(FALSE, TRUE, TRUE, TRUE, TRUE)}

InitSession ==
    /\ configFile = NoFile
    /\ currentFile = NoFile
    /\ settingsFile \in {NoSettings, Settings(NoEnvSettings)}
    /\ shellFiles = NoShellFiles
    /\ winEnv = NoEnv
    /\ processEnv \in EnvInits
    /\ host = ZshHost
    /\ added = <<>>
    /\ race = NoRace
    /\ last = Last("init", NoArg, "ok", "skipped", "skipped")

NextSession ==
    \/ SetCurrentConfig(SessionIos)
    \/ AlterEnv
    \/ GetCurrentConfig

SpecSession == InitSession /\ [][NextSession]_vars

(* Two CLI processes, `add A` and `remove B`, interleaved at the file reads
   and writes of addConfig and removeConfig                                *)

\* fs.appendFileSync(this.configFile, '\n' + newConfig)
appendConfig(file, c) ==
    File(readOrEmpty(file) \o <<LF>> \o configLine(c))

\* removeConfig writing the records of a fresh read of the file
rewriteFromFile(snapshot, file, alias) == removeConfigFile(file, alias)

\* removeConfig: writeFileSync of the records it read, but for the alias's
rewriteFromSnapshot(snapshot, file, alias) == removeConfigFile(snapshot, alias)

\* addConfig: getAllConfigs and the duplicate check
RaceAddRead ==
    /\ race.add.pc = "start"
    /\ configFile' = initConfig(configFile)
    /\ race' = [race EXCEPT !.add =
                  IF addConfigThrows(configFile, @.arg.alias)
                  THEN Proc("done", @.arg, initConfig(configFile), "DuplicateAlias")
                  ELSE Proc("append", @.arg, initConfig(configFile), "none")]
    /\ UNCHANGED <<currentFile, settingsFile, shellFiles, winEnv, processEnv,
                   host, added, last>>

\* addConfig: appendFileSync
RaceAddAppend ==
    /\ race.add.pc = "append"
    /\ configFile' = appendConfig(configFile, race.add.arg)
    /\ race' = [race EXCEPT !.add.pc = "done", !.add.res = "ok",
                            !.writes = Append(@, "append")]
    /\ UNCHANGED <<currentFile, settingsFile, shellFiles, winEnv, processEnv,
                   host, added, last>>

\* removeConfig: getAllConfigs and the existence check
RaceRemoveRead ==
    /\ race.remove.pc = "start"
    /\ configFile' = initConfig(configFile)
    /\ race' = [race EXCEPT !.remove =
                  IF removeConfigThrows(configFile, @.arg.alias)
                  THEN Proc("done", @.arg, initConfig(configFile), "UnknownAlias")
                  ELSE Proc("write", @.arg, initConfig(configFile), "none")]
    /\ UNCHANGED <<currentFile, settingsFile, shellFiles, winEnv, processEnv,
                   host, added, last>>

\* removeConfig: writeFileSync of the remaining records
RaceRemoveWrite ==
    /\ race.remove.pc = "write"
    /\ configFile' = rewriteFromSnapshot(race.remove.snapshot, configFile,
                                         race.remove.arg.alias)
    /\ race' = [race EXCEPT !.remove.pc = "pointer",
                            !.writes = Append(@, "write")]
    /\ UNCHANGED <<currentFile, settingsFile, shellFiles, winEnv, processEnv,
                   host, added, last>>

\* removeConfig: the pointer check, then return
RaceRemovePointer ==
    /\ race.remove.pc = "pointer"
    /\ currentFile' = removeConfigCurrent(race.remove.snapshot, currentFile,
                                          race.remove.arg.alias)
    /\ race' = [race EXCEPT !.remove.pc = "done", !.remove.res = "ok"]
    /\ UNCHANGED <<configFile, settingsFile, shellFiles, winEnv, processEnv,
                   host, added, last>>

\* the list file after addConfig of c
stored(file, c) == addConfigFile(file, c.alias, c.name, c.token, c.url, c.type)

RaceA == Config(a, Claude, sk1, url1, KEY)
RaceAB == Config(ab, Claude, sk2, url2, TOKEN)
RaceB == Config(b, Claude, sk2, url1, UNDEF)

\* list files the tool wrote before the two processes start
RaceStores ==
    {stored(NoFile, RaceB),
     stored(stored(NoFile, RaceB), RaceAB),
     stored(stored(NoFile, RaceA), RaceB),
     removeConfigFile(stored(stored(NoFile, RaceAB), RaceB), ab)}

RacePointers == {NoFile, File(configLine(RaceB)), File(configLine(RaceAB))}

InitRace ==
    /\ configFile \in RaceStores
    /\ currentFile \in RacePointers
    /\ settingsFile = NoSettings
    /\ shellFiles = NoShellFiles
    /\ winEnv = NoEnv
    /\ processEnv = NoEnv
    /\ host = ZshHost
    /\ added = <<>>
    /\ last = Last("init", NoArg, "ok", "skipped", "skipped")
    /\ \E c \in {RaceA, RaceAB}, alias \in Aliases :
          /\ c.alias # alias
          /\ hasAlias(getAllConfigs(configFile), alias)
          /\ race = [add |-> Proc("start", c, NoFile, "none"),
                     remove |-> Proc("start", AliasArg(alias), NoFile, "none"),
                     writes |-> <<>>]

NextRace ==
    \/ RaceAddRead
    \/ RaceAddAppend
    \/ RaceRemoveRead
    \/ RaceRemoveWrite
    \/ RaceRemovePointer

SpecRace == InitRace /\ [][NextRace]_vars

(* The add command with and without a manual type, on an empty store       *)

\* the <url> argument: the four listed URLs, texts that one of them is part
\* of or that hold one, and an unlisted URL
UrlInputs ==
    tokenUrls \cup keyUrls
        \cup {<<"https://api.aicodemirror.com">>,
              <<"https://gaccode.com", "/claudecode", "/">>,
              <<"https://code.wenwen-ai.com", "/">>,
              url1}

\* the [type] argument: left out, empty, the four words in several cases,
\* and words the resolver does not know
TypeInputs ==
    {UNDEF, <<>>,
     <<"k", "e", "y">>, <<"K", "E", "Y">>, <<"K", "e", "y">>, <<"k">>, <<"K">>,
     <<"t", "o", "k", "e", "n">>, <<"T", "O", "K", "E", "N">>,
     <<"T", "o", "k", "e", "n">>, <<"t">>, <<"T">>,
     <<"k", "e", "y", "s">>, <<"x">>, <<"t", "k">>}

\* Commands.add: the argument check, determineKeyType, addConfig
CommandsAddWith(aliases, tokens, urls, types) ==
    \E alias \in aliases, token \in tokens, url \in urls, type \in types :
        /\ IF ~Truthy(alias)
           THEN /\ configFile' = configFile
                /\ added' = added
                /\ last' = Last("commands.add", Config(alias, Claude, token, url, type),
                                "exit", "skipped", "skipped")
           ELSE /\ configFile' = addConfigFile(configFile, alias, Claude, token, url,
                                               determineKeyType(url, type))
                /\ added' = IF addConfigThrows(configFile, alias) THEN added
                            ELSE Append(added, alias)
                /\ last' = Last("commands.add", Config(alias, Claude, token, url, type),
                                IF addConfigThrows(configFile, alias)
                                THEN "exit" ELSE "ok",
                                "skipped", "skipped")
        /\ UNCHANGED <<currentFile, settingsFile, shellFiles, winEnv,
                       processEnv, host, race>>

\* the add command with one alias, every URL and every manual type
CommandsAdd == CommandsAddWith({a, <<>>}, {sk1}, UrlInputs, TypeInputs)

NextResolve ==
    \/ CommandsAdd
    \/ RemoveConfig

SpecResolve == Init /\ [][NextResolve]_vars

(* Reads of a list file and a pointer file that an earlier version of the
   tool, or the user, wrote with four fields or an empty fifth field       *)

Formats == {"four", "emptyFifth", "key", "token"}

\* one line of the files read at lines 116 and 418, in one of the formats
legacyLine(c, format) ==
    c.alias \o <<BAR>> \o c.name \o <<BAR>> \o c.token \o <<BAR>> \o c.url
        \o (IF format = "four" THEN <<>>
            ELSE IF format = "emptyFifth" THEN <<BAR>>
            ELSE IF format = "key" THEN <<BAR>> \o KEY
            ELSE <<BAR>> \o TOKEN)

\* list files of one or two lines, a and b in either order
LegacyStores ==
    {File(legacyLine(c, f)) : c \in {RaceA, RaceB}, f \in Formats}
        \cup {File(legacyLine(c[1], f[1]) \o <<LF>> \o legacyLine(c[2], f[2])) :
                c \in {<<RaceA, RaceB>>, <<RaceB, RaceA>>},
                f \in Formats \X Formats}

LegacyPointers == {NoFile} \cup {File(legacyLine(RaceA, f)) : f \in Formats}

InitLegacy ==
    /\ configFile \in LegacyStores
    /\ currentFile \in LegacyPointers
    /\ settingsFile = NoSettings
    /\ shellFiles = NoShellFiles
    /\ winEnv = NoEnv
    /\ processEnv = NoEnv
    /\ host = ZshHost
    /\ added = <<>>
    /\ race = NoRace
    /\ last = Last("init", NoArg, "ok", "skipped", "skipped")

NextLegacy ==
    \/ GetAllConfigs
    \/ GetConfig
    \/ RemoveConfig
    \/ GetCurrentConfig

SpecLegacy == InitLegacy /\ [][NextLegacy]_vars

(* The shell fallback on every combination of the observations that
   detectShell and getProfileFile make                                     *)

\* os.platform() and the six variables: unset, empty, or a value
DetectHosts ==
    {Host(win, shell, ps, comspec, zshVersion, zshName, bashVersion) :
        win \in BOOLEAN,
        shell \in {UNDEF, <<>>, <<"/bin/", "zsh">>, <<"/bin/", "bash">>,
                   <<"/usr/bin/", "fish">>,
                   <<"/opt/", "bash", "/bin/", "zsh">>},
        ps \in {UNDEF, <<"C:\\Modules">>},
        comspec \in {UNDEF, <<"C:\\Windows\\", "cmd", ".exe">>, <<"C:\\tcc.exe">>},
        zshVersion \in {UNDEF, <<>>, <<"5.9">>},
        zshName \in {UNDEF, <<"zsh">>},
        bashVersion \in {UNDEF, <<"5.2">>}}

\* the settings write fails, so that the shell configuration runs
DetectIos == {Io(TRUE, FALSE, TRUE, TRUE, TRUE)}

InitDetect ==
    /\ configFile = NoFile
    /\ currentFile = NoFile
    /\ settingsFile = NoSettings
    /\ shellFiles \in ShellInits
    /\ winEnv = NoEnv
    /\ processEnv = NoEnv
    /\ host \in DetectHosts
    /\ added = <<>>
    /\ race = NoRace
    /\ last = Last("init", NoArg, "ok", "skipped", "skipped")

NextDetect ==
    \/ SetCurrentConfig(DetectIos)
    \/ GetCurrentConfig

SpecDetect == InitDetect /\ [][NextDetect]_vars

(* The command layer: add, use, remove, list and current on one zsh host,
   from the empty store; use runs with every write succeeding, with the
   pointer write failing, and with the settings write failing             *)

CommandIos ==
    {AllOk, Io(FALSE, TRUE, TRUE, TRUE, TRUE), Io(TRUE, FALSE, TRUE, TRUE, TRUE)}

\* `acm add` with two aliases, one a prefix of the other, and a URL of each
\* kind
CommandsAddProfiles ==
    CommandsAddWith({a, ab}, {sk1},
                    {url1, <<"https://gaccode.com", "/claudecode">>}, {UNDEF})

NextCommands ==
    \/ CommandsAddProfiles
    \/ Use(CommandIos)
    \/ RemoveConfig
    \/ GetAllConfigs
    \/ GetConfig
    \/ GetCurrentConfig

SpecCommands == Init /\ [][NextCommands]_vars

---------------------------------------------------------------------------
(* Properties                                                              *)

aliasesOf(configs) == [i \in DOMAIN configs |-> configs[i].alias]

noDuplicates(seq) == Cardinality({seq[i] : i \in DOMAIN seq}) = Len(seq)

activated == last.op = "activate" /\ last.res = "ok"

\* C1: whenever activate(P) returns, whichever surface took the credential,
\* process.env holds ANTHROPIC_BASE_URL = P.baseUrl and P.secret under the
\* variable of P's credential kind.
C1_EnvUpdatedOnReturn ==
    activated =>
        /\ processEnv[BASE_URL] = last.arg.url
        /\ processEnv[envVarOf(last.arg.type)] = last.arg.token

\* C2: getCurrent() right after a successful activate(P) returns a record
\* with alias P.alias and isActive = true.
C2_ActiveAfterActivate ==
    activated =>
        LET cur == getCurrentConfig(currentFile, processEnv)
        IN  cur # <<>> /\ cur[1].alias = last.arg.alias /\ cur[1].isActive

\* C3: after activate(P) of a KEY profile ANTHROPIC_AUTH_TOKEN is absent and
\* ANTHROPIC_API_KEY = P.secret; of a TOKEN profile ANTHROPIC_API_KEY is
\* absent and ANTHROPIC_AUTH_TOKEN = P.secret.
C3_KindExclusiveEnv ==
    activated =>
        IF last.arg.type = KEY
        THEN processEnv[AUTH_TOKEN] = UNDEF /\ processEnv[API_KEY] = last.arg.token
        ELSE processEnv[API_KEY] = UNDEF /\ processEnv[AUTH_TOKEN] = last.arg.token

\* the alias the Active Pointer names, as getCurrent reads it
pointerNames(alias) ==
    LET cur == getCurrentConfig(currentFile, processEnv)
    IN  cur # <<>> /\ cur[1].alias = alias

\* C4: a successful remove(a) deletes the Active Pointer if the pointer names
\* a, and leaves the pointer file and the answer of getCurrent() as they were
\* if it names another alias (also one that a is a prefix of) or is absent.
C4_RemoveClearsOwnPointer ==
    [][last'.op = "remove" /\ last'.res = "ok" =>
          IF pointerNames(last'.arg.alias)
          THEN getCurrentConfig(currentFile', processEnv') = <<>>
          ELSE /\ currentFile' = currentFile
               /\ getCurrentConfig(currentFile', processEnv')
                    = getCurrentConfig(currentFile, processEnv)]_vars

\* a remove of alias a went through while the pointer names ab, and the
\* pointer is still there
C4_Witness ==
    /\ last.op = "remove" /\ last.res = "ok" /\ last.arg.alias = a
    /\ pointerNames(ab)

\* C5: after a successful add(P) with kind KEY or TOKEN, listAll() holds a
\* profile equal to P in all five fields.
C5_AddRoundTrip ==
    last.op = "add" /\ last.res = "ok" /\ Truthy(last.arg.type) =>
        \E i \in DOMAIN getAllConfigs(configFile) :
            getAllConfigs(configFile)[i] = last.arg

\* C6: add with an alias that find() resolves fails with DuplicateAlias and
\* leaves listAll() and the Active Pointer as they were.
C6_DuplicateAliasUnchanged ==
    [][last'.op = "add" /\ getConfig(configFile, last'.arg.alias) # <<>> =>
          /\ last'.res = "DuplicateAlias"
          /\ getAllConfigs(configFile') = getAllConfigs(configFile)
          /\ currentFile' = currentFile]_vars

\* an add failed on a duplicate alias while a pointer is present
C6_Witness ==
    last.op = "add" /\ last.res = "DuplicateAlias" /\ currentFile.exists

\* C7: from the empty store, after any adds and removes, listAll() has no two
\* records with one alias and lists the aliases in the order their surviving
\* adds succeeded; a remove(a) leaves listAll() as it was but for a's record.
C7_UniqueInInsertionOrder ==
    [][\A before \in {getAllConfigs(configFile)},
          after \in {getAllConfigs(configFile')} :
            /\ noDuplicates(aliasesOf(after))
            /\ aliasesOf(after) = added'
            /\ last'.op = "remove" /\ last'.res = "ok" =>
                  after = SelectSeq(before, LAMBDA c : c.alias # last'.arg.alias)]_vars

\* a remove went through and left two records, the later-added one last
C7_Witness ==
    /\ last.op = "remove" /\ last.res = "ok"
    /\ Len(getAllConfigs(configFile)) = 2
    /\ added = <<b, a>>

\* C8: remove of an alias absent from the store fails with UnknownAlias and
\* leaves listAll() and the Active Pointer file as they were.
C8_UnknownAliasUnchanged ==
    [][last'.op = "remove" /\ getConfig(configFile, last'.arg.alias) = <<>> =>
          /\ last'.res = "UnknownAlias"
          /\ getAllConfigs(configFile') = getAllConfigs(configFile)
          /\ currentFile' = currentFile]_vars

\* a remove failed on an alias the store lacks while the pointer names it
C8_Witness ==
    /\ last.op = "remove" /\ last.res = "UnknownAlias"
    /\ pointerNames(last.arg.alias)

\* C9: an activation whose startup-file write failed still returns; only a
\* failed Active Pointer write makes activate fail.
C9_ShellFailureNonFatal ==
    last.op = "activate" /\ last.res = "threw" =>
        last.settings = "skipped" /\ last.shell = "skipped"

\* C10: in one activate call the shell configuration (startup file or setx)
\* runs if and only if the settings-file step failed; when the settings step
\* succeeds the startup files and the setx store are unchanged and activate
\* returns; when it fails the startup file takes the sentinel block, and
\* activate returns unless the shell configuration itself fails.
C10_FallbackOrder ==
    [][last'.op = "activate" =>
          /\ last'.settings = "skipped" =>
                last'.res = "threw" /\ last'.shell = "skipped"
          /\ last'.settings = "ok" =>
                /\ last'.res = "ok" /\ last'.shell = "skipped"
                /\ shellFiles' = shellFiles /\ winEnv' = winEnv
          /\ last'.settings = "failed" =>
                /\ last'.shell # "skipped"
                /\ last'.shell # "failed" => last'.res = "ok"
                /\ last'.shell = "file" =>
                      includes(shellFiles'[getProfileFile(host, shellFiles)].content,
                               envVarStart)]_vars

\* the settings write failed, the startup file took the block and activate
\* returned
C10_Witness ==
    /\ last.op = "activate" /\ last.res = "ok"
    /\ last.settings = "failed" /\ last.shell = "file"
    /\ includes(shellFiles[getProfileFile(host, shellFiles)].content, envVarStart)

\* C11: activate(P) writes the Active Pointer before it touches any other
\* surface: when the pointer write fails activate fails and the pointer, the
\* settings file, the startup files, the setx store and process.env are as
\* they were; whenever the pointer write went through (activate returning on
\* the settings path or on the fallback path, or failing later) the pointer
\* file is the one line of P, replacing the earlier pointer, and getCurrent()
\* reads P's five fields from it.
C11_PointerFirst ==
    [][last'.op = "activate" =>
          IF last'.settings = "skipped"
          THEN /\ last'.res = "threw"
               /\ currentFile' = currentFile
               /\ settingsFile' = settingsFile
               /\ shellFiles' = shellFiles
               /\ winEnv' = winEnv
               /\ processEnv' = processEnv
          ELSE /\ currentFile' = File(configLine(last'.arg))
               /\ Len(split(currentFile'.content, LF)) = 1
               /\ \A cur \in {getCurrentConfig(currentFile', processEnv')} :
                    /\ cur # <<>>
                    /\ cur[1].alias = last'.arg.alias
                    /\ cur[1].name = last'.arg.name
                    /\ cur[1].token = last'.arg.token
                    /\ cur[1].url = last'.arg.url
                    /\ cur[1].type = last'.arg.type]_vars

\* an activation whose pointer write failed left the pointer of an earlier
\* activation and the settings file that activation wrote
C11_Witness ==
    /\ last.op = "activate" /\ last.res = "threw" /\ last.settings = "skipped"
    /\ pointerNames(ab) /\ last.arg.alias = a
    /\ settingsFile.exists
    /\ readClaudeSettings(settingsFile).env.ANTHROPIC_AUTH_TOKEN = sk2

\* the number of places of text s that hold the symbol sym
count(s, sym) == Cardinality({i \in DOMAIN s : s[i] = sym})

\* the text from the start marker to the end marker
blockOf(content) ==
    SubSeq(content, indexOf(content, envVarStart), indexOf(content, envVarEnd))

\* the text before the start marker and after the end marker, newlines
\* left out; the whole text when there is no block
outsideBlock(content) ==
    SelectSeq(
        IF includes(content, envVarStart) /\ includes(content, envVarEnd)
        THEN SubSeq(content, 1, indexOf(content, envVarStart) - 1)
                \o SubSeq(content, indexOf(content, envVarEnd) + 1, Len(content))
        ELSE content,
        LAMBDA x : x # LF)

\* the secrets, base URLs and credential variable names a block may hold
BlockValues ==
    {sk1[1], sk2[1], "sk-old", url1[1], url2[1], "https://old.example",
     "ANTHROPIC_AUTH_TOKEN", "ANTHROPIC_API_KEY"}

\* C12: startup files begin without a sentinel marker; after every
\* activation that takes the startup-file path the file holds exactly one
\* start marker and one end marker, the block between them assigns
\* ANTHROPIC_BASE_URL once and holds the base URL and the secret of the
\* profile just activated under the variable of its kind and nothing of any
\* other profile or kind, the text outside the block is the text the file
\* had before, and activating the same profile again on that path leaves the
\* startup files as they are.
C12_OneBlockLatestProfile ==
    [][last'.op = "activate" /\ last'.shell = "file" =>
          \A old \in {readOrEmpty(shellFiles[getProfileFile(host, shellFiles)])},
             new \in {shellFiles'[getProfileFile(host, shellFiles)].content} :
                /\ count(new, envVarStart) = 1
                /\ count(new, envVarEnd) = 1
                /\ indexOf(new, envVarStart) < indexOf(new, envVarEnd)
                /\ count(blockOf(new), "ANTHROPIC_BASE_URL") = 1
                /\ {x \in BlockValues : includes(blockOf(new), x)}
                      = {last'.arg.url[1], last'.arg.token[1],
                         IF last'.arg.type = KEY THEN "ANTHROPIC_API_KEY"
                         ELSE "ANTHROPIC_AUTH_TOKEN"}
                /\ outsideBlock(new) = outsideBlock(old)
                /\ last.op = "activate" /\ last.shell = "file"
                      /\ last.arg = last'.arg => shellFiles' = shellFiles]_vars

\* on the fallback path ~/.bash_profile, which had the user's text, holds
\* that text and after it the block of the TOKEN profile
C12_Witness ==
    /\ last.op = "activate" /\ last.shell = "file" /\ last.arg.type = TOKEN
    /\ host = BashHost
    /\ processEnv[BASE_URL] = url2
    /\ winEnv = NoEnv
    /\ outsideBlock(shellFiles[BashProfile].content) = UserText
    /\ includes(blockOf(shellFiles[BashProfile].content), sk2[1])
    /\ count(shellFiles[BashProfile].content, LF) = 6

\* C13: when settings.json exists and parses as a JSON object, with or
\* without an env map, and every write succeeds, activate(P) completes on the
\* settings surface: the document then has env.ANTHROPIC_BASE_URL = P.baseUrl
\* and every key but env.ANTHROPIC_AUTH_TOKEN, env.ANTHROPIC_API_KEY and
\* env.ANTHROPIC_BASE_URL (the other env keys, permissions, the top-level
\* keys) has the value it had.
C13_SettingsMerge ==
    [][last'.op = "activate" /\ settingsFile.exists /\ settingsFile.parses =>
          /\ last'.settings = "ok"
          /\ settingsFile'.exists /\ settingsFile'.parses
          /\ settingsFile'.doc.hasEnv
          /\ settingsFile'.doc.env.ANTHROPIC_BASE_URL = last'.arg.url
          /\ settingsFile'.doc.env.CLAUDE_CODE_MAX_OUTPUT_TOKENS
                = settingsFile.doc.env.CLAUDE_CODE_MAX_OUTPUT_TOKENS
          /\ settingsFile'.doc.env.CLAUDE_CODE_DISABLE_NONESSENTIAL_TRAFFIC
                = settingsFile.doc.env.CLAUDE_CODE_DISABLE_NONESSENTIAL_TRAFFIC
          /\ settingsFile'.doc.env.MY_OTHER_VAR = settingsFile.doc.env.MY_OTHER_VAR
          /\ settingsFile'.doc.permissions = settingsFile.doc.permissions
          /\ settingsFile'.doc.extra = settingsFile.doc.extra]_vars

\* the secrets of the profiles that are activated
ProfileSecrets == {c.token : c \in DirectConfigs}

\* C14: after activate(P) completed on the settings surface the document has
\* env.ANTHROPIC_API_KEY = P.secret for a KEY profile and
\* env.ANTHROPIC_AUTH_TOKEN = P.secret for a TOKEN profile, and the variable
\* of the other kind holds no secret of an activated profile.
C14_SettingsKindVariable ==
    last.op = "activate" /\ last.settings = "ok" =>
        IF last.arg.type = KEY
        THEN /\ settingsFile.doc.env.ANTHROPIC_API_KEY = last.arg.token
             /\ settingsFile.doc.env.ANTHROPIC_AUTH_TOKEN \notin ProfileSecrets
        ELSE /\ settingsFile.doc.env.ANTHROPIC_AUTH_TOKEN = last.arg.token
             /\ settingsFile.doc.env.ANTHROPIC_API_KEY \notin ProfileSecrets

\* C19: when settings.json is missing or does not parse and every write
\* succeeds, activate(P) writes a new settings file that is the default
\* document (CLAUDE_CODE_MAX_OUTPUT_TOKENS "32000",
\* CLAUDE_CODE_DISABLE_NONESSENTIAL_TRAFFIC 1, empty allow and deny lists, no
\* other key) with P's base URL and P's secret in its env map; the settings
\* step succeeded, so the shell fallback is not taken: activate returns and
\* the startup files, the setx store and process.env are as they were.
C19_DefaultDocument ==
    [][last'.op = "activate" /\ ~(settingsFile.exists /\ settingsFile.parses) =>
          /\ last'.res = "ok" /\ last'.settings = "ok" /\ last'.shell = "skipped"
          /\ shellFiles' = shellFiles /\ winEnv' = winEnv
          /\ processEnv' = processEnv
          /\ settingsFile'.exists /\ settingsFile'.parses
          /\ settingsFile'.doc.hasEnv
          /\ settingsFile'.doc.env.CLAUDE_CODE_MAX_OUTPUT_TOKENS = <<"32000">>
          /\ settingsFile'.doc.env.CLAUDE_CODE_DISABLE_NONESSENTIAL_TRAFFIC = <<"1">>
          /\ settingsFile'.doc.env.MY_OTHER_VAR = UNDEF
          /\ settingsFile'.doc.permissions = [allow |-> <<>>, deny |-> <<>>]
          /\ settingsFile'.doc.extra = UNDEF
          /\ settingsFile'.doc.env.ANTHROPIC_BASE_URL = last'.arg.url
          /\ last'.arg.token \in {settingsFile'.doc.env.ANTHROPIC_AUTH_TOKEN,
                                  settingsFile'.doc.env.ANTHROPIC_API_KEY}]_vars

\* on a host whose startup file has the user's text, a first activation
\* left the default document with the profile's values and no sentinel block
C19_Witness ==
    /\ last.op = "activate" /\ last.res = "ok" /\ last.settings = "ok"
    /\ settingsFile.exists /\ settingsFile.parses
    /\ settingsFile.doc.env.CLAUDE_CODE_MAX_OUTPUT_TOKENS = <<"32000">>
    /\ settingsFile.doc.permissions = [allow |-> <<>>, deny |-> <<>>]
    /\ settingsFile.doc.env.ANTHROPIC_BASE_URL = last.arg.url
    /\ shellFiles = [p \in Paths |-> File(UserText)]

\* the five fields of an answer of getCurrent
fieldsOf(cur) ==
    IF cur = <<>> THEN <<>>
    ELSE <<cur[1].alias, cur[1].name, cur[1].token, cur[1].url, cur[1].type>>

\* C15: getCurrent() answers absent exactly when there is no pointer file,
\* whether or not the store has a record of the alias; after an activation
\* wrote the pointer it answers P's five fields and isActive, which is true
\* iff process.env holds P.secret under the variable of P's kind and
\* P.baseUrl under ANTHROPIC_BASE_URL; a step that does not write the pointer
\* keeps the five fields; assigning or deleting the variable of the kind or
\* ANTHROPIC_BASE_URL while the profile is active makes isActive false, and
\* assigning the variable of the other kind keeps it true.
C15_GetCurrent ==
    [][\A cur \in {getCurrentConfig(currentFile, processEnv)},
          cur1 \in {getCurrentConfig(currentFile', processEnv')} :
            /\ cur1 = <<>> <=> ~currentFile'.exists
            /\ last'.op = "activate" /\ last'.settings # "skipped" =>
                  /\ fieldsOf(cur1) = <<last'.arg.alias, last'.arg.name,
                                        last'.arg.token, last'.arg.url,
                                        last'.arg.type>>
                  /\ cur1[1].isActive <=>
                        /\ processEnv'[IF last'.arg.type = KEY
                                       THEN "ANTHROPIC_API_KEY"
                                       ELSE "ANTHROPIC_AUTH_TOKEN"]
                              = last'.arg.token
                        /\ processEnv'["ANTHROPIC_BASE_URL"] = last'.arg.url
            /\ ~(last'.op = "activate" /\ last'.settings # "skipped") =>
                  fieldsOf(cur1) = fieldsOf(cur)
            /\ last'.op = "setenv" =>
                  /\ cur # <<>> /\ cur[1].isActive
                  /\ cur1[1].isActive <=>
                        last'.arg.alias[1]
                            = (IF cur[1].type = KEY THEN "ANTHROPIC_AUTH_TOKEN"
                               ELSE "ANTHROPIC_API_KEY")]_vars

\* the pointer names a KEY profile the store has no record of, process.env
\* holds its secret, ANTHROPIC_BASE_URL was altered and isActive is false
C15_Witness ==
    /\ last.op = "setenv" /\ last.arg.alias = <<BASE_URL>>
    /\ getConfig(configFile, a) = <<>>
    /\ \E cur \in {getCurrentConfig(currentFile, processEnv)} :
          /\ cur # <<>> /\ cur[1].alias = a /\ cur[1].type = KEY
          /\ ~cur[1].isActive
          /\ processEnv[API_KEY] = cur[1].token
          /\ processEnv[BASE_URL] = <<"altered">>

\* both processes returned, each reporting success
bothSucceeded ==
    /\ race.add.pc = "done" /\ race.add.res = "ok"
    /\ race.remove.pc = "done" /\ race.remove.res = "ok"

\* how far a call has come
position(pc) ==
    IF pc = "start" THEN 0
    ELSE IF pc \in {"append", "write"} THEN 1
    ELSE IF pc = "pointer" THEN 2
    ELSE 3

\* C16: add(A) and remove(B), A # B and B in the store, run as two processes
\* with no lock: every step of an interleaving moves one of the two calls
\* forward and leaves the other where it is, wherever that is (no call waits
\* for the other), and when both have reported success B is gone and A's
\* record is missing exactly when remove read the list before add appended
\* and wrote it after.
C16_LostUpdate ==
    [][/\ position(race'.add.pc) >= position(race.add.pc)
       /\ position(race'.remove.pc) >= position(race.remove.pc)
       /\ (race'.add.pc = race.add.pc) # (race'.remove.pc = race.remove.pc)
       /\ bothSucceeded' =>
            /\ ~hasAlias(getAllConfigs(configFile'), race'.remove.arg.alias)
            /\ ~hasAlias(getAllConfigs(configFile'), race'.add.arg.alias)
                  <=> /\ ~hasAlias(getAllConfigs(race'.remove.snapshot),
                                   race'.add.arg.alias)
                      /\ race'.writes = <<"append", "write">>]_vars

\* both calls reported success and the store has no record of A
C16_Witness ==
    /\ bothSucceeded
    /\ race.add.arg.alias # race.remove.arg.alias
    /\ hasAlias(getAllConfigs(race.remove.snapshot), race.remove.arg.alias)
    /\ ~hasAlias(getAllConfigs(configFile), race.add.arg.alias)

\* the spellings of the manual type that ask for KEY, and for TOKEN
KeySpellings ==
    {<<"k", "e", "y">>, <<"K", "E", "Y">>, <<"K", "e", "y">>, <<"k">>, <<"K">>}
TokenSpellings ==
    {<<"t", "o", "k", "e", "n">>, <<"T", "O", "K", "E", "N">>,
     <<"T", "o", "k", "e", "n">>, <<"t">>, <<"T">>}

\* C17: the record that `add <alias> <token> <url> [type]` stores has kind KEY
\* if the type is key or k in any case, TOKEN if it is token or t in any
\* case, and with the type left out, empty or any other word it has kind KEY
\* if the URL is exactly https://api.aicodemirror.com/api/claudecode or
\* https://gaccode.com/claudecode and TOKEN for every other URL.
C17_ResolverTable ==
    last.op = "commands.add" /\ last.res = "ok" =>
        /\ getConfig(configFile, last.arg.alias) # <<>>
        /\ getConfig(configFile, last.arg.alias)[1].url = last.arg.url
        /\ getConfig(configFile, last.arg.alias)[1].type =
              IF last.arg.type \in KeySpellings THEN <<"KEY">>
              ELSE IF last.arg.type \in TokenSpellings THEN <<"TOKEN">>
              ELSE IF last.arg.url
                        \in {<<"https://api.aicodemirror.com", "/api/claudecode">>,
                             <<"https://gaccode.com", "/claudecode">>}
              THEN <<"KEY">>
              ELSE <<"TOKEN">>

\* `add a sk-1 https://code.wenwen-ai.com KEY` stored a KEY record: the
\* manual type in upper case went before the URL rule
C17_Witness ==
    /\ last.op = "commands.add" /\ last.res = "ok"
    /\ last.arg.type = <<"K", "E", "Y">>
    /\ last.arg.url = <<"https://code.wenwen-ai.com">>
    /\ getConfig(configFile, a)[1].type = KEY

\* C18: a line of four fields, or with an empty fifth field, is read as a
\* TOKEN profile and a line whose fifth field is KEY as a KEY profile, with
\* the four other fields as written, both by listAll() and find() from the
\* profile list and by getCurrent() from the Active Pointer file.
C18_LegacyDefaultsToToken ==
    \A c \in {RaceA, RaceB}, f \in Formats :
        \A kind \in {IF f = "key" THEN <<"KEY">> ELSE <<"TOKEN">>} :
            /\ currentFile = File(legacyLine(c, f)) =>
                  /\ getCurrentConfig(currentFile, processEnv) # <<>>
                  /\ fieldsOf(getCurrentConfig(currentFile, processEnv))
                        = <<c.alias, c.name, c.token, c.url, kind>>
            /\ \A i \in DOMAIN storeLines(configFile) :
                  storeLines(configFile)[i] = legacyLine(c, f) =>
                      /\ getAllConfigs(configFile)[i]
                            = Config(c.alias, c.name, c.token, c.url, kind)
                      /\ getConfig(configFile, c.alias)
                            = <<Config(c.alias, c.name, c.token, c.url, kind)>>

\* the pointer has four fields, the list a line with an empty fifth field
\* and a KEY line, and they are read as TOKEN, TOKEN and KEY
C18_Witness ==
    /\ last.op = "current" /\ last.res = "ok"
    /\ currentFile = File(legacyLine(RaceA, "four"))
    /\ getCurrentConfig(currentFile, processEnv)[1].type = TOKEN
    /\ configFile = File(legacyLine(RaceB, "emptyFifth") \o <<LF>>
                            \o legacyLine(RaceA, "key"))
    /\ getAllConfigs(configFile)[1].type = TOKEN
    /\ getAllConfigs(configFile)[2].type = KEY

\* a variable is set: present with a value that is not the empty string
isSet(x) == x # <<"<undefined>">> /\ x # <<>>

\* text s holds the word w
holds(s, w) == isSet(s) /\ \E i \in DOMAIN s : s[i] = w

\* the shell of the table of C20
tableShell(h) ==
    CASE h.win /\ isSet(h.PSModulePath) -> "powershell"
      [] h.win /\ ~isSet(h.PSModulePath) /\ holds(h.COMSPEC, "cmd") -> "cmd"
      [] h.win /\ ~isSet(h.PSModulePath) /\ ~holds(h.COMSPEC, "cmd") -> "powershell"
      [] ~h.win /\ holds(h.SHELL, "zsh") -> "zsh"
      [] ~h.win /\ ~holds(h.SHELL, "zsh") /\ holds(h.SHELL, "bash") -> "bash"
      [] ~h.win /\ ~holds(h.SHELL, "zsh") /\ ~holds(h.SHELL, "bash")
            /\ (isSet(h.ZSH_VERSION) \/ isSet(h.ZSH_NAME)) -> "zsh"
      [] ~h.win /\ ~holds(h.SHELL, "zsh") /\ ~holds(h.SHELL, "bash")
            /\ ~(isSet(h.ZSH_VERSION) \/ isSet(h.ZSH_NAME))
            /\ isSet(h.BASH_VERSION) -> "bash"
      [] OTHER -> "unknown"

\* the target of the table of C20; "" stands for no file
tableTarget(h, files) ==
    CASE tableShell(h) = "zsh" -> "~/.zshrc"
      [] tableShell(h) = "bash" /\ files["~/.bash_profile"].exists -> "~/.bash_profile"
      [] tableShell(h) = "bash" /\ ~files["~/.bash_profile"].exists -> "~/.bashrc"
      [] tableShell(h) = "powershell" ->
            "~/Documents/WindowsPowerShell/Microsoft.PowerShell_profile.ps1"
      [] tableShell(h) \in {"cmd", "unknown"} /\ h.win -> ""
      [] OTHER -> "~/.profile"

\* C20: the shell and the target of the shell configuration are the ones of
\* the fixed-order table over the OS family, PSModulePath, COMSPEC, SHELL,
\* ZSH_VERSION, ZSH_NAME, BASH_VERSION (set meaning set to a non-empty value)
\* and the existence of ~/.bash_profile: detectShell and getProfileFile
\* answer them, and an activation on the shell path writes the sentinel
\* block into that file and no other, or, when the target is no file, writes
\* no file and sets the variables with setx.
C20_DetectionTable ==
    [][last'.op = "activate" /\ last'.shell # "skipped" =>
          \A target \in {tableTarget(host, shellFiles)} :
             /\ detectShell(host) = tableShell(host)
             /\ getProfileFile(host, shellFiles) = target
             /\ \A p \in Paths : p # target => shellFiles'[p] = shellFiles[p]
             /\ IF target = ""
                THEN /\ last'.shell = "setx"
                     /\ winEnv'["ANTHROPIC_BASE_URL"] = last'.arg.url
                ELSE /\ last'.shell = "file"
                     /\ winEnv' = winEnv
                     /\ shellFiles'[target].exists
                     /\ includes(shellFiles'[target].content, envVarStart)
                     /\ includes(shellFiles'[target].content, last'.arg.token[1])]_vars

\* SHELL names bash and zsh, ZSH_VERSION is empty and BASH_VERSION is set;
\* the block went to ~/.zshrc and ~/.bashrc was not written
C20_Witness ==
    /\ last.op = "activate" /\ last.shell = "file"
    /\ ~host.win
    /\ host.SHELL = <<"/opt/", "bash", "/bin/", "zsh">>
    /\ host.ZSH_VERSION = <<>> /\ host.BASH_VERSION = <<"5.2">>
    /\ includes(shellFiles[ZshRc].content, envVarStart)
    /\ ~shellFiles[BashRc].exists

\* C21: from the empty store with no Active Pointer, after any add, use and
\* remove commands, succeeding or failing, with fields that hold no
\* delimiter: whenever the pointer file is there, find(alias of the pointer)
\* answers a profile equal to the pointer in all five fields; and a use of an
\* alias that the store lacks leaves the pointer, the settings file, the
\* startup files, the setx store and process.env as they were.
C21_PointerNamesStoredProfile ==
    [][/\ currentFile'.exists =>
            \A cur \in {getCurrentConfig(currentFile', processEnv')},
               found \in {getConfig(configFile', parseLine(currentFile'.content).alias)} :
                /\ found # <<>>
                /\ fieldsOf(cur) = <<found[1].alias, found[1].name, found[1].token,
                                     found[1].url, found[1].type>>
       /\ last'.op = "use" /\ getConfig(configFile, last'.arg.alias) = <<>> =>
            /\ last'.res = "absent"
            /\ currentFile' = currentFile
            /\ settingsFile' = settingsFile
            /\ shellFiles' = shellFiles
            /\ winEnv' = winEnv
            /\ processEnv' = processEnv]_vars

\* use of alias b, which the store lacks, failed; the pointer names a, a was
\* added again as a KEY profile after a remove, and an earlier use left a
\* settings file and a sentinel block
C21_Witness ==
    /\ last.op = "use" /\ last.res = "absent" /\ last.arg.alias = b
    /\ pointerNames(a)
    /\ getConfig(configFile, a) # <<>> /\ getConfig(configFile, ab) # <<>>
    /\ getConfig(configFile, a)[1].type = KEY
    /\ added = <<ab, a>>
    /\ settingsFile.exists
    /\ includes(shellFiles[ZshRc].content, envVarStart)

\* C22: after any activations, the settings step succeeding or failing, the
\* surfaces the system wrote hold the credential of the profile that the
\* Active Pointer names and of no other: the sentinel block of every startup
\* file that has one holds that profile's base URL and secret under the
\* variable of its kind, and a settings file that was given a base URL
\* holds that profile's base URL and secret.
C22_NoStaleCredential ==
    currentFile.exists =>
        \A cur \in {parseLine(currentFile.content)} :
            /\ \A p \in Paths :
                  includes(shellFiles[p].content, envVarStart) =>
                      {x \in BlockValues : includes(blockOf(shellFiles[p].content), x)}
                          = {cur.url[1], cur.token[1],
                             IF cur.type = KEY THEN "ANTHROPIC_API_KEY"
                             ELSE "ANTHROPIC_AUTH_TOKEN"}
            /\ /\ settingsFile.exists /\ settingsFile.parses
               /\ settingsFile.doc.hasEnv
               /\ Truthy(settingsFile.doc.env.ANTHROPIC_BASE_URL)
               => /\ settingsFile.doc.env.ANTHROPIC_BASE_URL = cur.url
                  /\ cur.token \in {settingsFile.doc.env.ANTHROPIC_AUTH_TOKEN,
                                    settingsFile.doc.env.ANTHROPIC_API_KEY}

\* C23: add, remove, listAll, find and getCurrent, succeeding or failing,
\* leave the settings file, the startup files, the setx store and
\* process.env as they were; a remove of the profile that the pointer names
\* takes away that record and the pointer and nothing else, so what an
\* activation of the profile put into the settings file, the sentinel block
\* and process.env is still there.
C23_StoreOpsFrame ==
    [][last'.op \in {"commands.add", "remove", "list", "find", "current"} =>
          /\ settingsFile' = settingsFile
          /\ shellFiles' = shellFiles
          /\ winEnv' = winEnv
          /\ processEnv' = processEnv
          /\ last'.op = "remove" /\ last'.res = "ok"
                /\ pointerNames(last'.arg.alias) =>
                \A before \in {getAllConfigs(configFile)},
                   after \in {getAllConfigs(configFile')} :
                    /\ ~currentFile'.exists
                    /\ after = SelectSeq(before,
                                         LAMBDA c : c.alias # last'.arg.alias)]_vars

\* profile a was activated on both surfaces and then removed: the record and
\* the pointer are gone, and the settings file, the sentinel block and
\* process.env still hold its secret and base URL
C23_Witness ==
    /\ last.op = "remove" /\ last.res = "ok" /\ last.arg.alias = a
    /\ ~currentFile.exists
    /\ getConfig(configFile, a) = <<>>
    /\ settingsFile.exists
    /\ settingsFile.doc.env.ANTHROPIC_AUTH_TOKEN = sk1
    /\ settingsFile.doc.env.ANTHROPIC_BASE_URL = url1
    /\ includes(shellFiles[ZshRc].content, envVarStart)
    /\ includes(blockOf(shellFiles[ZshRc].content), url1[1])
    /\ includes(blockOf(shellFiles[ZshRc].content), sk1[1])
    /\ processEnv[AUTH_TOKEN] = sk1
    /\ processEnv[BASE_URL] = url1

===========================================================================
